---- MODULE Spec2Model ----
(***************************************************************************)
(* Model of the beans market-data core: the decimal codec and the order    *)
(* book of src/src/orderbook.rs, the classifier and array unwrap, and the  *)
(* receive loop / worker pool / reordering stage of src/src/main.rs and    *)
(* src/src/polymarket/websocket.rs.                                        *)
(***************************************************************************)
EXTENDS Integers, Sequences, FiniteSets, TLC

VARIABLES
    entry,          \* which receive loop runs: "main" (main.rs) or "connect" (websocket.rs)
    overflow_checks,\* build profile: TRUE = arithmetic overflow panics, FALSE = it wraps
    loop,           \* receive loop: "streaming", "closed", "error", "panicked"
    alive,          \* FALSE once the process has exited (main returned)
    wire,           \* results of ws.read_frame() so far, in arrival order
    seq_no,         \* the receive loop's counter
    tasks,          \* parse tasks handed to pool.spawn, in submission order
    chan,           \* the unbounded channel (tx -> rx)
    reorder,        \* reordering thread: "running", "panicked", "done"
    buffer,         \* orderbook_handling's BTreeMap seq_no -> Orderbook
    next_seq,       \* orderbook_handling's next expected sequence number
    recvd,          \* sequence numbers rx.recv() has returned, in order
    emitted,        \* entries the reordering stage has printed, in order
    orderbook,      \* the shared book handed to connect (Arc<RwLock<Orderbook>>)
    book_in,        \* a deserialized IncomingOrderBookMessage (wire strings)
    book_out,       \* what from_bytes made of book_in ("none" before the call)
    qbook,          \* an Orderbook the accessors are called on
    quotes,         \* what best_bid, best_ask, mid_price and spread returned for qbook
    dec_in,         \* arguments of a parse_decimal_to_int call: the string and `decimals`
    dec_out,        \* what that call returned ("none" before the call)
    raw_in,         \* a Text payload handed to the classifier or to strip_array_wrapper
    raw_out         \* what that call returned ("none" before the call)

queryVars == <<qbook, quotes>>
codecVars == <<dec_in, dec_out>>
rawVars == <<raw_in, raw_out>>

vars == <<entry, overflow_checks, loop, alive, wire, seq_no, tasks, chan,
          reorder, buffer, next_seq, recvd, emitted, orderbook, book_in, book_out,
          queryVars, codecVars, rawVars>>

(***************************************************************************)
(* Bounds of the model.                                                    *)
(***************************************************************************)
\* PriceLevel and Quantity are u64; the model keeps the same arithmetic at
\* a narrower width so that the overflow cases stay within reach.
WordBits == 12
\* Frames read from the transport in one run.
MaxFrames == 3
\* Levels (both sides together) of a snapshot handed to from_bytes.
MaxLevels == 3
\* Characters of a generated string handed to parse_decimal_to_int.
MaxStrLen == 6
\* Bytes of a payload handed to the classifier or to strip_array_wrapper.
MaxRawLen == 4

Modulus == 2 ^ WordBits
MaxWord == Modulus - 1

(***************************************************************************)
(* Program constants.                                                      *)
(***************************************************************************)
PRICE_DECIMALS == 2
SIZE_DECIMALS == 1
NUM_THREADS == 4
ASSET_PREFIX_LEN == 20

None == [tag |-> "none"]
Some(v) == [tag |-> "some", val |-> v]
Ok(v) == [tag |-> "ok", val |-> v]
Err(m) == [tag |-> "err", msg |-> m]
Panic == [tag |-> "panic"]

Range(s) == {s[i] : i \in DOMAIN s}
Max(S) == CHOOSE x \in S : \A y \in S : y <= x
Min(S) == CHOOSE x \in S : \A y \in S : x <= y

(***************************************************************************)
(* Decimal codec (orderbook.rs, parse_decimal_to_int).  A string is a      *)
(* sequence of one-character strings.                                      *)
(***************************************************************************)
Digits == {"0", "1", "2", "3", "4", "5", "6", "7", "8", "9"}

DigitVal(c) ==
    CASE c = "0" -> 0 [] c = "1" -> 1 [] c = "2" -> 2 [] c = "3" -> 3
      [] c = "4" -> 4 [] c = "5" -> 5 [] c = "6" -> 6 [] c = "7" -> 7
      [] c = "8" -> 8 [] c = "9" -> 9

\* The digit loop of u64::from_str: -1 for an invalid digit or a value above
\* the width (checked_mul / checked_add).
RECURSIVE parse_digits(_, _)
parse_digits(s, acc) ==
    IF s = <<>> THEN acc
    ELSE IF Head(s) \notin Digits THEN -1
    ELSE IF acc * 10 + DigitVal(Head(s)) > MaxWord THEN -1
    ELSE parse_digits(Tail(s), acc * 10 + DigitVal(Head(s)))

\* str::parse::<u64>(): empty input fails, one leading '+' is accepted, a
\* lone sign fails, '-' is no digit of an unsigned integer.
parse_u64(s) ==
    IF s = <<>> THEN -1
    ELSE IF Head(s) = "+"
         THEN (IF Tail(s) = <<>> THEN -1 ELSE parse_digits(Tail(s), 0))
         ELSE parse_digits(s, 0)

\* s.find('.'): the 1-based index of the first '.', 0 when there is none.
find_dot(s) ==
    IF \E i \in DOMAIN s : s[i] = "." THEN Min({i \in DOMAIN s : s[i] = "."}) ELSE 0

\* 10u64.pow(e) as the build computes it when nothing overflows, or wrapped.
RECURSIVE wrapping_pow10(_)
wrapping_pow10(e) == IF e = 0 THEN 1 ELSE (wrapping_pow10(e - 1) * 10) % Modulus

\* Whether 10^e exceeds the width.
RECURSIVE pow10_overflows(_)
pow10_overflows(e) ==
    IF e = 0 THEN FALSE
    ELSE pow10_overflows(e - 1) \/ wrapping_pow10(e - 1) * 10 > MaxWord

\* One arithmetic step x with the build's overflow behaviour: Panic when the
\* profile checks overflow, the wrapped value otherwise.
Arith(x, checks) ==
    IF x > MaxWord THEN (IF checks THEN Panic ELSE Ok(x % Modulus)) ELSE Ok(x)

Pow10(e, checks) ==
    IF pow10_overflows(e) THEN (IF checks THEN Panic ELSE Ok(wrapping_pow10(e)))
    ELSE Ok(wrapping_pow10(e))

\* frac_part taken as it stands, whatever its length.
unscaled_frac(frac_part, frac_len, decimals, checks) == Ok(frac_part)

\* frac_part scaled to `decimals` digits (orderbook.rs 149-155).
scaled_frac(frac_part, frac_len, decimals, checks) ==
    IF frac_len < decimals
    THEN LET p == Pow10(decimals - frac_len, checks) IN
         IF p.tag = "panic" THEN Panic ELSE Arith(frac_part * p.val, checks)
    ELSE IF frac_len > decimals
    THEN LET p == Pow10(frac_len - decimals, checks) IN
         IF p.tag = "panic" THEN Panic
         ELSE IF p.val = 0 THEN Panic          \* division by zero
         ELSE Ok(frac_part \div p.val)
    ELSE Ok(frac_part)

\* Ok(n), Err(message), or Panic (an arithmetic abort of the calling thread).
parse_decimal_to_int(s, decimals, checks) ==
    LET multiplier == Pow10(decimals, checks)
        dot_pos == find_dot(s)
    IN  IF multiplier.tag = "panic" THEN Panic
        ELSE IF dot_pos # 0
        THEN LET int_part == parse_u64(SubSeq(s, 1, dot_pos - 1))
                 frac_str == SubSeq(s, dot_pos + 1, Len(s))
                 frac_len == Len(frac_str)
                 frac_part == parse_u64(frac_str)
             IN  IF int_part = -1 THEN Err("invalid integer part")
                 ELSE IF frac_part = -1 THEN Err("invalid fractional part")
                 ELSE LET sf == scaled_frac(frac_part, frac_len, decimals, checks) IN
                      IF sf.tag = "panic" THEN Panic
                      ELSE LET m == Arith(int_part * multiplier.val, checks) IN
                           IF m.tag = "panic" THEN Panic
                           ELSE Arith(m.val + sf.val, checks)
        ELSE LET int_part == parse_u64(s) IN
             IF int_part = -1 THEN Err("invalid integer")
             ELSE Arith(int_part * multiplier.val, checks)

(***************************************************************************)
(* Order book (orderbook.rs).  A side is a function price -> quantity; a   *)
(* BTreeMap iterates it by ascending key, the bids by Reverse(price).      *)
(***************************************************************************)
EmptySide == [p \in {} |-> 0]

\* #[derive(Default)] for Orderbook.
DefaultOrderbook ==
    [market |-> "", asset_id |-> "", timestamp |-> 0, asks |-> EmptySide, bids |-> EmptySide]

deserialize_price(s, checks) == parse_decimal_to_int(s, PRICE_DECIMALS, checks)
deserialize_size(s, checks) == parse_decimal_to_int(s, SIZE_DECIMALS, checks)
parsed_u64(n) == IF n = -1 THEN Err("invalid digit") ELSE Ok(n)
deserialize_timestamp(s) == parsed_u64(parse_u64(s))

\* A LevelEntry from its two deserialized fields: the first failure wins.
level_entry(p, q) ==
    IF p.tag # "ok" THEN p
    ELSE IF q.tag # "ok" THEN q
    ELSE Ok([price |-> p.val, size |-> q.val])

\* One {"price": .., "size": ..} object into a LevelEntry.
deserialize_level(e, checks) ==
    level_entry(deserialize_price(e.price, checks), deserialize_size(e.size, checks))

\* Vec<LevelEntry> from its first element h and the rest t.
levels_cons(h, t) ==
    IF h.tag # "ok" THEN h
    ELSE IF t.tag # "ok" THEN t
    ELSE Ok(<<h.val>> \o t.val)

\* A JSON array of levels into Vec<LevelEntry>: the first failure ends it.
RECURSIVE deserialize_levels(_, _)
deserialize_levels(ws, checks) ==
    IF ws = <<>> THEN Ok(<<>>)
    ELSE levels_cons(deserialize_level(Head(ws), checks), deserialize_levels(Tail(ws), checks))

\* IncomingOrderBookMessage from its deserialized fields.
message_fields(w, ts, bs, as) ==
    IF ts.tag # "ok" THEN ts
    ELSE IF bs.tag # "ok" THEN bs
    ELSE IF as.tag # "ok" THEN as
    ELSE Ok([market |-> w.market, asset_id |-> w.asset_id, timestamp |-> ts.val,
             bids |-> bs.val, asks |-> as.val])

\* The decoded JSON object w into an IncomingOrderBookMessage.
deserialize_message(w, checks) ==
    message_fields(w, deserialize_timestamp(w.timestamp),
                   deserialize_levels(w.bids, checks), deserialize_levels(w.asks, checks))

\* The level list with the size filter left out.
retained_unfiltered(levels) == levels

\* .filter(|e| e.size > 0)
retained(levels) == SelectSeq(levels, LAMBDA e : e.size > 0)

\* .map(|e| (e.price, e.size)).collect(): a later entry of a price replaces
\* an earlier one.
collect(levels) ==
    [p \in {levels[i].price : i \in DOMAIN levels} |->
        levels[Max({i \in DOMAIN levels : levels[i].price = p})].size]

\* from_bytes after the JSON decode (orderbook.rs 54-74).
build_orderbook(msg) ==
    [market |-> msg.market, asset_id |-> msg.asset_id, timestamp |-> msg.timestamp,
     asks |-> collect(retained(msg.asks)), bids |-> collect(retained(msg.bids))]

\* from_bytes on a decoded JSON object: Ok(Orderbook), Err or Panic.
built(m) == IF m.tag # "ok" THEN m ELSE Ok(build_orderbook(m.val))
from_message(w, checks) == built(deserialize_message(w, checks))

\* The first entry of the bids had they been keyed by plain ascending price.
best_bid_ascending(ob) ==
    IF DOMAIN ob.bids = {} THEN None
    ELSE LET k == Min(DOMAIN ob.bids) IN Some(<<k, ob.bids[k]>>)

\* bids.first_key_value(): the keys are Reverse(price), the first is the highest.
best_bid(ob) ==
    IF DOMAIN ob.bids = {} THEN None
    ELSE LET k == Max(DOMAIN ob.bids) IN Some(<<k, ob.bids[k]>>)

\* asks.first_key_value(): the lowest price.
best_ask(ob) ==
    IF DOMAIN ob.asks = {} THEN None
    ELSE LET k == Min(DOMAIN ob.asks) IN Some(<<k, ob.asks[k]>>)

\* (bid + ask) / 2 once the sum has been formed by the build's addition.
halved(sum) == IF sum.tag = "panic" THEN Panic ELSE Some(sum.val \div 2)

\* Some(mid), None, or Panic when the checked addition overflows.
mid_price(ob, checks) ==
    IF best_bid(ob).tag = "some" /\ best_ask(ob).tag = "some"
    THEN halved(Arith(best_bid(ob).val[1] + best_ask(ob).val[1], checks))
    ELSE None

\* u64::wrapping_sub.
wrapping_sub(a, b) == (a - b + Modulus) % Modulus

\* u64::saturating_sub.
saturating_sub(a, b) == IF a >= b THEN a - b ELSE 0

spread(ob) ==
    IF best_bid(ob).tag = "some" /\ best_ask(ob).tag = "some"
    THEN Some(saturating_sub(best_ask(ob).val[1], best_bid(ob).val[1]))
    ELSE None

(***************************************************************************)
(* Snapshots handed to from_bytes in the book specification.               *)
(***************************************************************************)
Str033 == <<"0", ".", "3", "3">>
Str04 == <<"0", ".", "4">>
Str50 == <<"5", "0">>
Str0 == <<"0">>
Str004 == <<"0", ".", "0", "4">>
Str25 == <<"2", ".", "5">>

PriceStrs == {Str033, Str04, Str50}
SizeStrs == {Str0, Str004, Str25}
WireLevels == [price : PriceStrs, size : SizeStrs]

LongAssetId == "52286616472996634577443051031708917634646051347292466975337196584207785187680"
ShortAssetId == "1234"

\* The decoded snapshot with the given sides.
WireSnapshot(b, a) ==
    [market |-> "0xm", asset_id |-> LongAssetId, timestamp |-> <<"1", "7">>,
     bids |-> b, asks |-> a]

(***************************************************************************)
(* Payloads.  A payload is a sequence of byte runs: the single bytes "[",  *)
(* "]", "{", "}", "nl" (a newline), and named runs that stand for the      *)
(* field text of one JSON object.                                          *)
(***************************************************************************)
\* Field text of a book snapshot: carries "event_type":"book".
BookRuns == {"book_a", "book_b", "book_short", "book_bad"}
\* Field text of a trade event: carries "event_type":"last_trade_price".
TradeRuns == {"trade"}
\* Field text of a price_change event, around its "price_changes":[..] array.
PriceChangeRuns == {"pc_tail"}

\* The JSON object a book run decodes to (its fields as wire strings).
BookFields(run) ==
    CASE run = "book_a" ->
           [market |-> "0xm", asset_id |-> LongAssetId, timestamp |-> <<"1", "7">>,
            bids |-> <<[price |-> Str033, size |-> Str25]>>,
            asks |-> <<[price |-> Str04, size |-> Str25]>>]
      [] run = "book_b" ->
           [market |-> "0xm", asset_id |-> LongAssetId, timestamp |-> <<"1", "8">>,
            bids |-> <<>>,
            asks |-> <<[price |-> Str04, size |-> Str0], [price |-> Str50, size |-> Str25]>>]
      [] run = "book_short" ->
           [market |-> "0xm", asset_id |-> ShortAssetId, timestamp |-> <<"1", "9">>,
            bids |-> <<[price |-> Str033, size |-> Str25]>>, asks |-> <<>>]
      [] run = "book_bad" ->
           [market |-> "0xm", asset_id |-> LongAssetId, timestamp |-> <<"2", "0">>,
            bids |-> <<[price |-> <<"0", ".", "x">>, size |-> Str25]>>, asks |-> <<>>]

\* raw.windows(marker.len()).any(|w| w == marker), per byte run.
\* main.rs: ORDERBOOK = b"book".
contains_book_word(raw) == \E i \in DOMAIN raw : raw[i] \in BookRuns
\* websocket.rs: ORDERBOOK = b"event_type\":\"book\"".
contains_book_event(raw) == \E i \in DOMAIN raw : raw[i] \in BookRuns
\* websocket.rs: LAST_TRADE_PRICE and PRICE_CHANGE.
contains_last_trade_price(raw) == \E i \in DOMAIN raw : raw[i] \in TradeRuns
contains_price_change(raw) == \E i \in DOMAIN raw : raw[i] \in PriceChangeRuns

\* A '[' anywhere in the payload.
some_is_bracket(raw) == \E i \in DOMAIN raw : raw[i] = "["

\* raw.first() == Some(&b'[')
first_is_bracket(raw) == raw # <<>> /\ raw[1] = "["

\* main.rs is_initial_book
is_initial_book(raw) == first_is_bracket(raw) /\ contains_book_word(raw)

\* websocket.rs is_book_message
is_book_message(raw) == ~first_is_bracket(raw) /\ contains_book_event(raw)

\* raw.iter().position(|&b| b == b']'): the first ']' instead of the last.
position_close(raw) ==
    IF \E i \in DOMAIN raw : raw[i] = "]"
    THEN Min({i \in DOMAIN raw : raw[i] = "]"}) - 1
    ELSE -1

\* raw.iter().rposition(|&b| b == b']'): 0-based, -1 for None.
rposition_close(raw) ==
    IF \E i \in DOMAIN raw : raw[i] = "]"
    THEN Max({i \in DOMAIN raw : raw[i] = "]"}) - 1
    ELSE -1

strip_start == 1
strip_end(raw) == IF rposition_close(raw) = -1 THEN Len(raw) ELSE rposition_close(raw)

\* &raw[start..end] aborts when start > end or end > len.
strip_panics(raw) == strip_start > strip_end(raw) \/ strip_end(raw) > Len(raw)

\* The slice taken from index 0: &raw[..end].
strip_from_zero(raw) == SubSeq(raw, 1, strip_end(raw))

\* strip_array_wrapper where the slice is in bounds.
strip_array_wrapper(raw) == SubSeq(raw, strip_start + 1, strip_end(raw))

\* serde_json skips whitespace around the value.
RECURSIVE trim_left(_)
trim_left(raw) == IF raw # <<>> /\ Head(raw) = "nl" THEN trim_left(Tail(raw)) ELSE raw
RECURSIVE trim_right(_)
trim_right(raw) ==
    IF raw # <<>> /\ raw[Len(raw)] = "nl" THEN trim_right(SubSeq(raw, 1, Len(raw) - 1)) ELSE raw

\* serde_json::from_slice::<IncomingOrderBookMessage>, the JSON layer: one
\* object with the book's fields (unknown fields are ignored), nothing after it.
json_object(raw) ==
    LET t == trim_right(trim_left(raw)) IN
    IF Len(t) = 3 /\ t[1] = "{" /\ t[3] = "}" /\ t[2] \in BookRuns
    THEN Ok(BookFields(t[2]))
    ELSE Err("json")

\* Orderbook::from_bytes
from_json(j, checks) == IF j.tag # "ok" THEN j ELSE from_message(j.val, checks)
from_bytes(raw, checks) == from_json(json_object(raw), checks)

\* parse_message: Some(ob), None after logging the error, or Panic.
parse_outcome(r) ==
    IF r.tag = "ok" THEN Some(r.val)
    ELSE IF r.tag = "err" THEN None
    ELSE Panic
parse_message(raw, checks) == parse_outcome(from_bytes(raw, checks))

\* Text payloads the transport delivers.
Payloads ==
    { <<"[", "{", "book_a", "}", "]">>,
      <<"[", "{", "book_b", "}", "]", "nl">>,
      <<"[", "{", "book_short", "}", "]">>,
      <<"[", "{", "book_bad", "}", "]">>,
      <<"{", "book_a", "}">>,
      <<"{", "trade", "}">>,
      <<"{", "[", "{", "}", "]", "pc_tail", "}">>,
      <<>> }

\* What read_frame() can return: a frame, or a transport error.
Frames ==
    [opcode : {"Text"}, payload : Payloads]
      \cup {[opcode |-> "Close", payload |-> <<>>],
            [opcode |-> "Ping", payload |-> <<>>],
            [opcode |-> "Err", payload |-> <<>>]}

(***************************************************************************)
(* The pipeline: receive loop, worker pool, reordering stage.              *)
(***************************************************************************)
\* The classifier's decision to keep a Text payload.
kept(e, raw) == IF e = "main" THEN is_initial_book(raw) ELSE ~is_book_message(raw)

\* No accessor, codec or unwrap call is under observation.
QueryIdle == qbook = DefaultOrderbook /\ quotes = None
CodecIdle == dec_in = [s |-> Str0, decimals |-> PRICE_DECIMALS] /\ dec_out = None
RawIdle == raw_in = <<>> /\ raw_out = None

Init ==
    /\ entry \in {"main", "connect"}
    /\ overflow_checks \in BOOLEAN
    /\ loop = "streaming"
    /\ alive = TRUE
    /\ wire = <<>>
    /\ seq_no = 0
    /\ tasks = <<>>
    /\ chan = <<>>
    /\ reorder = "running"
    /\ buffer = <<>>
    /\ next_seq = 0
    /\ recvd = <<>>
    /\ emitted = <<>>
    /\ orderbook = DefaultOrderbook
    /\ book_in = BookFields("book_a")
    /\ book_out = None
    /\ QueryIdle
    /\ CodecIdle
    /\ RawIdle

CanRead == alive /\ loop = "streaming" /\ Len(wire) < MaxFrames

\* read_frame() fails: `?` leaves the function.
ReadError ==
    /\ CanRead
    /\ wire' = Append(wire, [opcode |-> "Err", payload |-> <<>>])
    /\ loop' = "error"
    /\ UNCHANGED <<entry, overflow_checks, alive, seq_no, tasks, chan, reorder, buffer,
                   next_seq, recvd, emitted, orderbook, book_in, book_out,
                   queryVars, codecVars, rawVars>>

\* OpCode::Close with the `break` left out.
ReadClose_NoBreak ==
    /\ CanRead
    /\ wire' = Append(wire, [opcode |-> "Close", payload |-> <<>>])
    /\ UNCHANGED <<entry, overflow_checks, loop, alive, seq_no, tasks, chan, reorder, buffer,
                   next_seq, recvd, emitted, orderbook, book_in, book_out,
                   queryVars, codecVars, rawVars>>

\* OpCode::Close => break
ReadClose ==
    /\ CanRead
    /\ wire' = Append(wire, [opcode |-> "Close", payload |-> <<>>])
    /\ loop' = "closed"
    /\ UNCHANGED <<entry, overflow_checks, alive, seq_no, tasks, chan, reorder, buffer,
                   next_seq, recvd, emitted, orderbook, book_in, book_out,
                   queryVars, codecVars, rawVars>>

\* Any other opcode: `_ => {}`.
ReadOther ==
    /\ CanRead
    /\ wire' = Append(wire, [opcode |-> "Ping", payload |-> <<>>])
    /\ UNCHANGED <<entry, overflow_checks, loop, alive, seq_no, tasks, chan, reorder, buffer,
                   next_seq, recvd, emitted, orderbook, book_in, book_out,
                   queryVars, codecVars, rawVars>>

\* OpCode::Text, payload rejected by the classifier.
ReadTextDropped(raw) ==
    /\ CanRead
    /\ ~kept(entry, raw)
    /\ wire' = Append(wire, [opcode |-> "Text", payload |-> raw])
    /\ UNCHANGED <<entry, overflow_checks, loop, alive, seq_no, tasks, chan, reorder, buffer,
                   next_seq, recvd, emitted, orderbook, book_in, book_out,
                   queryVars, codecVars, rawVars>>

\* OpCode::Text, payload kept: number it, unwrap it, hand it to the pool.
ReadTextKept(raw) ==
    /\ CanRead
    /\ kept(entry, raw)
    /\ ~strip_panics(raw)
    /\ wire' = Append(wire, [opcode |-> "Text", payload |-> raw])
    /\ seq_no' = seq_no + 1
    /\ tasks' = Append(tasks, [seq |-> seq_no, data |-> strip_array_wrapper(raw), st |-> "queued"])
    /\ UNCHANGED <<entry, overflow_checks, loop, alive, chan, reorder, buffer,
                   next_seq, recvd, emitted, orderbook, book_in, book_out,
                   queryVars, codecVars, rawVars>>

\* OpCode::Text, payload kept, and the unwrap's slice is out of bounds: the
\* counter has been incremented, the loop unwinds before pool.spawn.
ReadTextAborts(raw) ==
    /\ CanRead
    /\ kept(entry, raw)
    /\ strip_panics(raw)
    /\ wire' = Append(wire, [opcode |-> "Text", payload |-> raw])
    /\ seq_no' = seq_no + 1
    /\ loop' = "panicked"
    /\ UNCHANGED <<entry, overflow_checks, alive, tasks, chan, reorder, buffer,
                   next_seq, recvd, emitted, orderbook, book_in, book_out,
                   queryVars, codecVars, rawVars>>

\* main returns once its loop has ended: the process exits with its threads.
Exit ==
    /\ alive
    /\ entry = "main"
    /\ loop \in {"closed", "error"}
    /\ alive' = FALSE
    /\ UNCHANGED <<entry, overflow_checks, loop, wire, seq_no, tasks, chan, reorder, buffer,
                   next_seq, recvd, emitted, orderbook, book_in, book_out,
                   queryVars, codecVars, rawVars>>

\* The pool's threads take spawned tasks in submission order.
CanRun(i) ==
    /\ alive
    /\ i \in DOMAIN tasks
    /\ tasks[i].st = "queued"
    /\ Cardinality({j \in 1..(i - 1) : tasks[j].st = "queued"}) < NUM_THREADS

SetSt(i, st) == [tasks EXCEPT ![i].st = st]

\* The closure's parse succeeded and the message is sent.
WorkerSends(i, ob) ==
    /\ reorder = "running"
    /\ chan' = Append(chan, [seq_no |-> tasks[i].seq, orderbook |-> ob])
    /\ tasks' = SetSt(i, "sent")
    /\ UNCHANGED alive

\* The receiver is gone: tx.send fails and `let _ =` drops the error.
WorkerSendFails(i) ==
    /\ reorder # "running"
    /\ tasks' = SetSt(i, "send_failed")
    /\ UNCHANGED <<chan, alive>>

\* parse_message logged the error and returned None: nothing is sent.
WorkerParseFails(i) ==
    /\ tasks' = SetSt(i, "parse_failed")
    /\ UNCHANGED <<chan, alive>>

\* The closure panicked (checked arithmetic overflow in the codec): the pool
\* has no panic handler, so the process aborts.
WorkerPanics(i) ==
    /\ tasks' = SetSt(i, "panicked")
    /\ alive' = FALSE
    /\ UNCHANGED chan

\* The closure handed to pool.spawn, run by a pool thread.
Worker(i) ==
    /\ CanRun(i)
    /\ \E r \in {parse_message(tasks[i].data, overflow_checks)} :
          \/ r.tag = "some" /\ WorkerSends(i, r.val)
          \/ r.tag = "some" /\ WorkerSendFails(i)
          \/ r.tag = "none" /\ WorkerParseFails(i)
          \/ r.tag = "panic" /\ WorkerPanics(i)
    /\ UNCHANGED <<entry, overflow_checks, loop, wire, seq_no, reorder, buffer,
                   next_seq, recvd, emitted, orderbook, book_in, book_out,
                   queryVars, codecVars, rawVars>>

\* buffer.insert(seq, ob)
Insert(buf, k, v) == [x \in DOMAIN buf \cup {k} |-> IF x = k THEN v ELSE buf[x]]
\* buffer.remove(&k)
Remove(buf, k) == [x \in DOMAIN buf \ {k} |-> buf[x]]

\* &ob.asset_id[..20] is out of range.
emit_panics(ob) == Len(ob.asset_id) < ASSET_PREFIX_LEN

\* The print block of one entry, up to the asset line.
Emit(out, ns, ob) == Append(out, [seq_no |-> ns, orderbook |-> ob])

\* The inner loop with `if let` in place of `while let`.
DrainOnce(buf, ns, out) ==
    IF ns \in DOMAIN buf
    THEN IF emit_panics(buf[ns])
         THEN [buf |-> Remove(buf, ns), ns |-> ns, out |-> Emit(out, ns, buf[ns]), panicked |-> TRUE]
         ELSE [buf |-> Remove(buf, ns), ns |-> ns + 1, out |-> Emit(out, ns, buf[ns]),
               panicked |-> FALSE]
    ELSE [buf |-> buf, ns |-> ns, out |-> out, panicked |-> FALSE]

\* The inner loop taking the buffer's first entry whatever its number.
RECURSIVE DrainFirst(_, _, _)
DrainFirst(buf, ns, out) ==
    IF DOMAIN buf # {}
    THEN LET k == Min(DOMAIN buf) IN
         IF emit_panics(buf[k])
         THEN [buf |-> Remove(buf, k), ns |-> ns, out |-> Emit(out, k, buf[k]), panicked |-> TRUE]
         ELSE DrainFirst(Remove(buf, k), ns + 1, Emit(out, k, buf[k]))
    ELSE [buf |-> buf, ns |-> ns, out |-> out, panicked |-> FALSE]

\* while let Some(ob) = buffer.remove(&next_seq) { print..; next_seq += 1 }
RECURSIVE Drain(_, _, _)
Drain(buf, ns, out) ==
    IF ns \in DOMAIN buf
    THEN IF emit_panics(buf[ns])
         THEN [buf |-> Remove(buf, ns), ns |-> ns, out |-> Emit(out, ns, buf[ns]), panicked |-> TRUE]
         ELSE Drain(Remove(buf, ns), ns + 1, Emit(out, ns, buf[ns]))
    ELSE [buf |-> buf, ns |-> ns, out |-> out, panicked |-> FALSE]

\* One iteration of `while let Ok(msg) = rx.recv()`: insert, then drain.  A
\* panic in the print block ends the thread and drops the receiver with
\* whatever is queued in the channel.
RecvMsg ==
    /\ alive
    /\ reorder = "running"
    /\ chan # <<>>
    /\ \E msg \in {Head(chan)} :
       \E d \in {Drain(Insert(buffer, msg.seq_no, msg.orderbook), next_seq, emitted)} :
           /\ recvd' = Append(recvd, msg.seq_no)
           /\ buffer' = d.buf
           /\ next_seq' = d.ns
           /\ emitted' = d.out
           /\ reorder' = IF d.panicked THEN "panicked" ELSE "running"
           /\ chan' = IF d.panicked THEN <<>> ELSE Tail(chan)
    /\ UNCHANGED <<entry, overflow_checks, loop, alive, wire, seq_no, tasks,
                   orderbook, book_in, book_out,
                   queryVars, codecVars, rawVars>>

\* rx.recv() returns Err: the channel is empty and every sender (the loop's
\* tx and each task's clone) has been dropped.
RecvDisconnected ==
    /\ alive
    /\ reorder = "running"
    /\ chan = <<>>
    /\ loop # "streaming"
    /\ \A i \in DOMAIN tasks : tasks[i].st # "queued"
    /\ reorder' = "done"
    /\ UNCHANGED <<entry, overflow_checks, loop, alive, wire, seq_no, tasks, chan, buffer,
                   next_seq, recvd, emitted, orderbook, book_in, book_out,
                   queryVars, codecVars, rawVars>>

Next ==
    \/ ReadError
    \/ ReadClose
    \/ ReadOther
    \/ \E raw \in Payloads : ReadTextDropped(raw)
    \/ \E raw \in Payloads : ReadTextKept(raw)
    \/ \E raw \in Payloads : ReadTextAborts(raw)
    \/ Exit
    \/ \E i \in DOMAIN tasks : Worker(i)
    \/ RecvMsg
    \/ RecvDisconnected

Spec == Init /\ [][Next]_vars

\* Scheduling: the reordering thread is an OS thread that runs whenever it
\* can, and main returns once its loop has ended.  Nothing obliges the peer
\* to send a further frame.  No condition is put on the pool's threads: the
\* progress properties below start where no task is left to run.
Fairness ==
    /\ WF_vars(RecvMsg)
    /\ WF_vars(RecvDisconnected)
    /\ WF_vars(Exit)

SpecLive == Init /\ [][Next]_vars /\ Fairness

(***************************************************************************)
(* The book specification: from_bytes applied to one decoded snapshot.     *)
(***************************************************************************)
InitBook ==
    /\ entry = "main"
    /\ overflow_checks \in BOOLEAN
    /\ loop = "streaming"
    /\ alive = TRUE
    /\ wire = <<>>
    /\ seq_no = 0
    /\ tasks = <<>>
    /\ chan = <<>>
    /\ reorder = "running"
    /\ buffer = <<>>
    /\ next_seq = 0
    /\ recvd = <<>>
    /\ emitted = <<>>
    /\ orderbook = DefaultOrderbook
    /\ \E nb, na \in 0..MaxLevels :
          /\ nb + na <= MaxLevels
          /\ \E b \in [1..nb -> WireLevels], a \in [1..na -> WireLevels] :
                book_in = WireSnapshot(b, a)
    /\ book_out = None
    /\ QueryIdle
    /\ CodecIdle
    /\ RawIdle

ApplyFromBytes ==
    /\ book_out = None
    /\ book_out' = from_message(book_in, overflow_checks)
    /\ UNCHANGED <<entry, overflow_checks, loop, alive, wire, seq_no, tasks, chan, reorder,
                   buffer, next_seq, recvd, emitted, orderbook, book_in,
                   queryVars, codecVars, rawVars>>

NextBook == ApplyFromBytes

SpecBook == InitBook /\ [][NextBook]_vars

(***************************************************************************)
(* The accessor specification: best_bid, best_ask, mid_price and spread    *)
(* called on one Orderbook.                                                *)
(***************************************************************************)
\* Prices and quantities of the books: small ones and the top of the width.
QueryPrices == {33, 40, MaxWord - 1, MaxWord}
QueryQuantities == {7, 25}

\* One side: any set of prices, each with a non-zero quantity.
Sides == UNION {[ps -> QueryQuantities] : ps \in SUBSET QueryPrices}

PipelineIdle ==
    /\ entry = "main"
    /\ loop = "streaming"
    /\ alive = TRUE
    /\ wire = <<>>
    /\ seq_no = 0
    /\ tasks = <<>>
    /\ chan = <<>>
    /\ reorder = "running"
    /\ buffer = <<>>
    /\ next_seq = 0
    /\ recvd = <<>>
    /\ emitted = <<>>
    /\ orderbook = DefaultOrderbook
    /\ book_in = BookFields("book_a")
    /\ book_out = None

pipeVars == <<entry, overflow_checks, loop, alive, wire, seq_no, tasks, chan, reorder,
              buffer, next_seq, recvd, emitted, orderbook, book_in, book_out>>

InitQuery ==
    /\ PipelineIdle
    /\ overflow_checks \in BOOLEAN
    /\ \E b \in Sides, a \in Sides :
          qbook = [market |-> "0xm", asset_id |-> LongAssetId, timestamp |-> 17,
                   asks |-> a, bids |-> b]
    /\ quotes = None
    /\ CodecIdle
    /\ RawIdle

ApplyAccessors ==
    /\ quotes = None
    /\ quotes' = [best_bid |-> best_bid(qbook),
                  best_ask |-> best_ask(qbook),
                  mid_price |-> mid_price(qbook, overflow_checks),
                  spread |-> spread(qbook)]
    /\ UNCHANGED <<pipeVars, qbook, codecVars, rawVars>>

NextQuery == ApplyAccessors

SpecQuery == InitQuery /\ [][NextQuery]_vars

(***************************************************************************)
(* The codec specification: parse_decimal_to_int applied to one string.    *)
(***************************************************************************)
\* Characters of the generated strings: two digits, the point, a sign.
DecChars == {"0", "9", ".", "+"}

\* Every string over DecChars of at most MaxStrLen characters.
GeneratedStrs == UNION {[1..n -> DecChars] : n \in 0..MaxStrLen}

Str12345 == <<"1", ".", "2", "3", "4", "5">>
Str000001 == <<"0", ".", "0", "0", "0", "0", "1">>
StrMinus9 == <<"-", "9">>
Str9x == <<"9", ".", "x">>

\* Strings handed to the codec: the generated ones, the wire strings of the
\* book specification, and a few named ones.
DecStrs ==
    GeneratedStrs \cup PriceStrs \cup SizeStrs \cup {Str12345, Str000001, StrMinus9, Str9x}

InitCodec ==
    /\ PipelineIdle
    /\ overflow_checks \in BOOLEAN
    /\ QueryIdle
    /\ dec_in \in [s : DecStrs, decimals : {PRICE_DECIMALS, SIZE_DECIMALS}]
    /\ dec_out = None
    /\ RawIdle

ApplyParseDecimal ==
    /\ dec_out = None
    /\ dec_out' = parse_decimal_to_int(dec_in.s, dec_in.decimals, overflow_checks)
    /\ UNCHANGED <<pipeVars, queryVars, dec_in, rawVars>>

NextCodec == ApplyParseDecimal

SpecCodec == InitCodec /\ [][NextCodec]_vars

(***************************************************************************)
(* The payload specification: the classifier and strip_array_wrapper       *)
(* applied to one Text payload.                                            *)
(***************************************************************************)
\* Bytes of the payloads: the brackets, whitespace, the text of a snapshot.
RawBytes == {"[", "]", "nl", "book_a"}

\* Every payload over RawBytes of at most MaxRawLen bytes.
RawPayloads == UNION {[1..n -> RawBytes] : n \in 0..MaxRawLen}

InitRaw ==
    /\ PipelineIdle
    /\ overflow_checks \in BOOLEAN
    /\ QueryIdle
    /\ CodecIdle
    /\ raw_in \in RawPayloads
    /\ raw_out = None

\* is_initial_book(raw) of main.rs and is_book_message(raw) of websocket.rs.
ApplyClassifier ==
    /\ raw_out = None
    /\ raw_out' = [call |-> "classify",
                   initial_book |-> is_initial_book(raw_in),
                   book_message |-> is_book_message(raw_in)]
    /\ UNCHANGED <<pipeVars, queryVars, codecVars, raw_in>>

\* strip_array_wrapper(raw): the slice, or Panic when its bounds are invalid.
ApplyStrip ==
    /\ raw_out = None
    /\ raw_out' = [call |-> "strip",
                   ret |-> IF strip_panics(raw_in) THEN Panic
                           ELSE Ok(strip_array_wrapper(raw_in))]
    /\ UNCHANGED <<pipeVars, queryVars, codecVars, raw_in>>

NextRaw == ApplyClassifier \/ ApplyStrip

SpecRaw == InitRaw /\ [][NextRaw]_vars

(***************************************************************************)
(* Properties.                                                             *)
(***************************************************************************)
\* Frames of the wire the classifier keeps, in arrival order.
KeptFrames ==
    SelectSeq(wire, LAMBDA f : f.opcode = "Text" /\ kept(entry, f.payload))

EmittedSeqs == {emitted[i].seq_no : i \in DOMAIN emitted}

\* Every submitted task has run and nothing is left in the channel.
Quiescent == chan = <<>> /\ \A i \in DOMAIN tasks : tasks[i].st # "queued"

\* C1: the reordering stage emits sequence numbers 0, 1, 2, ... in that
\* order, each once, whatever order the parsed messages arrive in.
C1_EmissionInOrder ==
    \A i \in DOMAIN emitted : emitted[i].seq_no = i - 1

\* Messages were received out of order and at least two entries are out.
C1_Witness ==
    /\ Len(emitted) >= 2
    /\ \E i, j \in DOMAIN recvd : i < j /\ recvd[i] > recvd[j]

\* C2: a sequence number whose parse failed is still accounted for: with
\* all work done, a received successor of a failed number has been emitted
\* and next_seq has moved past the failed number.
C2_SkippedSeqAccounted ==
    \A i \in DOMAIN tasks :
        ( /\ tasks[i].st = "parse_failed"
          /\ reorder # "panicked"
          /\ Quiescent
          /\ tasks[i].seq + 1 \in Range(recvd) )
        => (tasks[i].seq + 1 \in EmittedSeqs /\ next_seq > tasks[i].seq)

\* C3: the n-th kept Text frame is submitted with sequence number n-1; the
\* counter equals the number of kept frames and of submitted tasks.
C3_SeqNumbering ==
    /\ seq_no = Len(KeptFrames)
    /\ Len(tasks) = Len(KeptFrames)
    /\ \A i \in DOMAIN tasks : tasks[i].seq = i - 1

\* C4: the buffer holds only numbers above next_seq that were never emitted;
\* next_seq itself is not buffered once a message has been handled.
C4_BufferAheadOfNext ==
    /\ \A k \in DOMAIN buffer : k >= next_seq /\ k \notin EmittedSeqs
    /\ next_seq \notin DOMAIN buffer

\* An entry is held back in the buffer after an earlier one was emitted.
C4_Witness ==
    /\ DOMAIN buffer # {}
    /\ emitted # <<>>
    /\ reorder = "running"

\* C5: with the connection open, once N kept frames have all parsed and
\* every worker has finished, the N numbers 0..N-1 are out, in order.
C5_AllEmittedInOrder ==
    ( /\ loop = "streaming"
      /\ alive
      /\ tasks # <<>>
      /\ \A i \in DOMAIN tasks : tasks[i].st \in {"sent", "send_failed"}
      /\ chan = <<>> )
    => ( /\ Len(emitted) = Len(tasks)
         /\ \A i \in DOMAIN emitted : emitted[i].seq_no = i - 1 )

\* C6: the shared Order Book Model equals the snapshot emitted last.
C6_AppliedBookIsLastEmitted ==
    (entry = "connect" /\ emitted # <<>>)
    => orderbook = emitted[Len(emitted)].orderbook

\* C7: once read_frame has returned a Close frame or an error, nothing more
\* is read, numbered or submitted.
C7_ClosedIsTerminal ==
    [][ (\E i \in DOMAIN wire : wire[i].opcode \in {"Close", "Err"})
        => (wire' = wire /\ seq_no' = seq_no /\ Len(tasks') = Len(tasks)) ]_vars

\* The loop has ended below the frame bound, with work submitted before.
C7_Witness ==
    /\ loop \in {"closed", "error"}
    /\ Len(wire) < MaxFrames
    /\ emitted # <<>>

\* C8: with the connection open and all work done, every kept trade or
\* price_change frame has been emitted.
C8_EventsEmitted ==
    ( /\ loop = "streaming"
      /\ alive
      /\ reorder = "running"
      /\ Quiescent )
    => \A i \in DOMAIN KeptFrames :
          ( contains_last_trade_price(KeptFrames[i].payload)
            \/ contains_price_change(KeptFrames[i].payload) )
          => (i - 1) \in EmittedSeqs

\* C9: after a worker's send has failed the receive loop issues no further
\* sequence number and submits no further task.
C9_SendFailureStopsLoop ==
    [][ (\E i \in DOMAIN tasks : tasks[i].st = "send_failed")
        => (seq_no' = seq_no /\ Len(tasks') = Len(tasks)) ]_vars

\* C10: a book made by from_bytes has no zero quantity on either side, so
\* neither best_bid nor best_ask reports one.
C10_NoZeroLevels ==
    book_out.tag = "ok" =>
        /\ \A p \in DOMAIN book_out.val.asks : book_out.val.asks[p] # 0
        /\ \A p \in DOMAIN book_out.val.bids : book_out.val.bids[p] # 0
        /\ best_bid(book_out.val).tag = "some" => best_bid(book_out.val).val[2] # 0
        /\ best_ask(book_out.val).tag = "some" => best_ask(book_out.val).val[2] # 0

\* A snapshot with a zero-size ask below a sized one: the zero level is
\* gone and best_ask is the sized level.
C10_Witness ==
    /\ book_out.tag = "ok"
    /\ \E i, j \in DOMAIN book_in.asks :
          /\ book_in.asks[i].price = Str033
          /\ book_in.asks[i].size \in {Str0, Str004}
          /\ book_in.asks[j].price = Str04
          /\ book_in.asks[j].size = Str25
    /\ best_ask(book_out.val) = Some(<<40, 25>>)

\* C11: best_bid is the bid of the highest price with its quantity, best_ask
\* the ask of the lowest price with its quantity; each is absent exactly
\* when its side is empty.
C11_BestOfBook ==
    quotes # None =>
        /\ (quotes.best_bid = None) <=> (DOMAIN qbook.bids = {})
        /\ (quotes.best_ask = None) <=> (DOMAIN qbook.asks = {})
        /\ quotes.best_bid # None =>
              /\ quotes.best_bid.tag = "some"
              /\ quotes.best_bid.val[1] \in DOMAIN qbook.bids
              /\ \A p \in DOMAIN qbook.bids : p <= quotes.best_bid.val[1]
              /\ quotes.best_bid.val[2] = qbook.bids[quotes.best_bid.val[1]]
        /\ quotes.best_ask # None =>
              /\ quotes.best_ask.tag = "some"
              /\ quotes.best_ask.val[1] \in DOMAIN qbook.asks
              /\ \A p \in DOMAIN qbook.asks : p >= quotes.best_ask.val[1]
              /\ quotes.best_ask.val[2] = qbook.asks[quotes.best_ask.val[1]]

\* Both sides hold several levels with different quantities and the
\* accessors have answered with the highest bid and the lowest ask.
C11_Witness ==
    /\ quotes # None
    /\ DOMAIN qbook.bids = {33, 40}
    /\ DOMAIN qbook.asks = {40, MaxWord}
    /\ qbook.bids[33] # qbook.bids[40]
    /\ quotes.best_bid = Some(<<40, qbook.bids[40]>>)
    /\ quotes.best_ask = Some(<<40, qbook.asks[40]>>)

\* The highest bid price and the lowest ask price of the book in hand.
TopBid == Max(DOMAIN qbook.bids)
TopAsk == Min(DOMAIN qbook.asks)
TwoSided == DOMAIN qbook.bids # {} /\ DOMAIN qbook.asks # {}

\* C12: spread is best ask price minus best bid price when the ask is at
\* least the bid and 0 when the book is crossed; it is absent unless both
\* sides are non-empty.
C12_SpreadSaturates ==
    quotes # None =>
        /\ TwoSided =>
              quotes.spread = Some(IF TopAsk >= TopBid THEN TopAsk - TopBid ELSE 0)
        /\ ~TwoSided => quotes.spread = None

\* A crossed book (best bid above best ask) whose spread came out as 0.
C12_Witness ==
    /\ quotes # None
    /\ TwoSided
    /\ TopBid > TopAsk
    /\ quotes.spread = Some(0)

\* C13: mid_price is the floor of the true (unbounded) sum of the best bid
\* and best ask prices divided by two, for every pair of prices of the
\* width, with no wrap-around and no abort; it is absent unless both sides
\* are non-empty.
C13_MidPriceOfTrueSum ==
    quotes # None =>
        /\ TwoSided => quotes.mid_price = Some((TopBid + TopAsk) \div 2)
        /\ ~TwoSided => quotes.mid_price = None

\* The decimal a string denotes, read with unbounded integers.
RECURSIVE NatOf(_, _)
NatOf(s, acc) == IF s = <<>> THEN acc ELSE NatOf(Tail(s), acc * 10 + DigitVal(Head(s)))

AllDigits(s) == s # <<>> /\ \A i \in DOMAIN s : s[i] \in Digits

\* The part before the first '.', and the part after it.
IntStr(s) == IF find_dot(s) = 0 THEN s ELSE SubSeq(s, 1, find_dot(s) - 1)
FracStr(s) == IF find_dot(s) = 0 THEN <<>> ELSE SubSeq(s, find_dot(s) + 1, Len(s))

\* A string of the form I or I.F with I and F non-empty digit strings.
DecimalForm(s) ==
    IF find_dot(s) = 0 THEN AllDigits(s) ELSE AllDigits(IntStr(s)) /\ AllDigits(FracStr(s))

\* F cut to its first d digits, or padded with zeros up to d digits.
Fitted(f, d) == [i \in 1..d |-> IF i <= Len(f) THEN f[i] ELSE "0"]

\* I * 10^d + F' in unbounded integers.
TrueValue(s, d) == NatOf(IntStr(s), 0) * (10 ^ d) + NatOf(Fitted(FracStr(s), d), 0)

\* A power of ten the scaling of s needs that is above the width.
PowerExceeds(s, d) ==
    \/ 10 ^ d > MaxWord
    \/ Len(FracStr(s)) > d /\ 10 ^ (Len(FracStr(s)) - d) > MaxWord

\* C14: for an input of the form I or I.F (non-empty digit strings) whose
\* result fits the width, parse_decimal_to_int returns I * 10^decimals + F',
\* F' being F padded with zeros or cut (not rounded) to `decimals` digits,
\* for fractional parts of any length.
C14_ScaledValue ==
    ( /\ dec_out # None
      /\ DecimalForm(dec_in.s)
      /\ TrueValue(dec_in.s, dec_in.decimals) <= MaxWord )
    => dec_out = Ok(TrueValue(dec_in.s, dec_in.decimals))

\* C15: when the combined value, or a power of ten used for the scaling,
\* is above the width, parse_decimal_to_int returns an error value: it
\* neither wraps, nor aborts, nor returns a number.
C15_OverflowIsAnError ==
    ( /\ dec_out # None
      /\ DecimalForm(dec_in.s)
      /\ \/ TrueValue(dec_in.s, dec_in.decimals) > MaxWord
         \/ PowerExceeds(dec_in.s, dec_in.decimals) )
    => dec_out.tag = "err"

\* C16: an input with a character other than an ASCII digit before or after
\* its first '.' (a sign, a second '.') yields an error, never a value.
C16_NonDigitIsAnError ==
    ( /\ dec_out # None
      /\ \E i \in DOMAIN dec_in.s : i # find_dot(dec_in.s) /\ dec_in.s[i] \notin Digits )
    => dec_out.tag = "err"

\* C17: parse("1.2345", 2) drops the digits beyond the second and yields
\* 123 (the value 1.23 in hundredths).
C17_TruncatesTo123 ==
    (dec_out # None /\ dec_in = [s |-> Str12345, decimals |-> PRICE_DECIMALS])
    => dec_out = Ok(123)

\* The call parse("1.2345", 2) has returned.
C17_Witness ==
    /\ dec_in = [s |-> Str12345, decimals |-> PRICE_DECIMALS]
    /\ dec_out.tag = "ok"
    /\ dec_out.val = 1 * 100 + 23

\* C17 as stated: parse("1.2345", 2) yields 120.
C17_TruncatesTo120 ==
    (dec_out # None /\ dec_in = [s |-> Str12345, decimals |-> PRICE_DECIMALS])
    => dec_out = Ok(120)

Stripped == raw_out # None /\ raw_out.call = "strip"
Classified == raw_out # None /\ raw_out.call = "classify"
NoClose(raw) == \A i \in DOMAIN raw : raw[i] # "]"

\* C18: on an input with no ']' strip_array_wrapper takes the slice from
\* index 1 to the end: a non-empty input comes back without its first byte
\* (not unchanged), and for the empty input the slice bounds are invalid
\* (1 > 0) and the call aborts.
C18_NoCloseDropsFirstByte ==
    (Stripped /\ NoClose(raw_in)) =>
        /\ raw_in = <<>> => raw_out.ret = Panic
        /\ raw_in # <<>> => raw_out.ret = Ok(Tail(raw_in))

\* A payload of several bytes without ']' came back one byte shorter.
C18_Witness ==
    /\ Stripped
    /\ NoClose(raw_in)
    /\ Len(raw_in) >= 2
    /\ raw_out.ret.tag = "ok"
    /\ Len(raw_out.ret.val) = Len(raw_in) - 1

\* C18 as stated: on an input with no ']' strip_array_wrapper returns the
\* input unchanged.
C18_NoCloseUnchanged ==
    (Stripped /\ NoClose(raw_in)) => raw_out.ret = Ok(raw_in)

\* C19: for an input '[' X ']' W with no ']' in W, strip_array_wrapper
\* returns exactly X (k is the position of the ']' that closes X).
C19_UnwrapsToInner ==
    Stripped =>
        \A k \in 2..Len(raw_in) :
            ( /\ raw_in[1] = "["
              /\ raw_in[k] = "]"
              /\ NoClose(SubSeq(raw_in, k + 1, Len(raw_in))) )
            => raw_out.ret = Ok(SubSeq(raw_in, 2, k - 1))

\* X itself holds a ']' and W is trailing whitespace; X came back whole.
C19_Witness ==
    /\ Stripped
    /\ raw_in = <<"[", "]", "]", "nl">>
    /\ raw_out.ret = Ok(<<"]">>)

\* Payload whose first byte after any leading whitespace is '['.
FirstNonWhitespaceIsOpen(raw) == trim_left(raw) # <<>> /\ Head(trim_left(raw)) = "["

\* C20: the array-wrapped test of the classifier holds exactly when the
\* first byte of the payload is '[', no whitespace being skipped: with the
\* snapshot marker present, is_initial_book is true and is_book_message
\* false exactly then.  So a payload whose first non-whitespace byte is not
\* '[' is never array-wrapped, and neither is one with whitespace before
\* its '['.
C20_ArrayWrappedByFirstByte ==
    Classified =>
        /\ contains_book_word(raw_in) =>
              (raw_out.initial_book <=> (raw_in # <<>> /\ Head(raw_in) = "["))
        /\ contains_book_event(raw_in) =>
              (raw_out.book_message <=> ~(raw_in # <<>> /\ Head(raw_in) = "["))
        /\ ~contains_book_word(raw_in) => ~raw_out.initial_book
        /\ ~contains_book_event(raw_in) => ~raw_out.book_message
        /\ ~FirstNonWhitespaceIsOpen(raw_in) => ~raw_out.initial_book

\* A snapshot with whitespace before its '[' was not taken as array-wrapped.
C20_Witness ==
    /\ Classified
    /\ Len(raw_in) >= 3
    /\ raw_in[1] = "nl"
    /\ raw_in[2] = "["
    /\ contains_book_word(raw_in)
    /\ ~raw_out.initial_book
    /\ raw_out.book_message

\* C20 as stated: the array-wrapped test holds exactly when the first
\* non-whitespace byte is '[', so leading whitespace before '[' is skipped.
C20_ArrayWrappedSkipsWhitespace ==
    Classified =>
        /\ contains_book_word(raw_in) =>
              (raw_out.initial_book <=> FirstNonWhitespaceIsOpen(raw_in))
        /\ contains_book_event(raw_in) =>
              (raw_out.book_message <=> ~FirstNonWhitespaceIsOpen(raw_in))

\* The receive loop has ended and no submitted task is still to run: the
\* loop's sender and every task's clone have been dropped.
SendersDropped == loop # "streaming" /\ \A i \in DOMAIN tasks : tasks[i].st # "queued"

\* The reordering stage has left its receive loop, or the process has ended
\* with the stage idle and nothing queued for it.
ReorderFinished ==
    \/ reorder = "done"
    \/ ~alive /\ reorder = "running" /\ chan = <<>>

\* C21: once the receive loop has ended and every worker task has finished,
\* the reordering stage handles what is queued in the channel and then
\* leaves its receive loop, whatever is left in the buffer.
C21_ReorderTerminates == SendersDropped ~> ReorderFinished

\* The wire entry at index j of a side is the last one of its price and
\* has size zero, and an earlier entry lists that price with a size.
LaterZero(levels, j) ==
    /\ deserialize_size(levels[j].size, overflow_checks).val = 0
    /\ \A k \in DOMAIN levels : k > j => levels[k].price # levels[j].price
    /\ \E i \in DOMAIN levels :
          /\ i < j
          /\ levels[i].price = levels[j].price
          /\ deserialize_size(levels[i].size, overflow_checks).val # 0

\* C22: from_bytes takes the entries of a side in wire order and a zero
\* size removes the key: a price listed with a size and later, last, with
\* size 0 has no level in the resulting book.
C22_LaterZeroRemovesLevel ==
    book_out.tag = "ok" =>
        /\ \A j \in DOMAIN book_in.asks :
              LaterZero(book_in.asks, j) =>
                  deserialize_price(book_in.asks[j].price, overflow_checks).val
                      \notin DOMAIN book_out.val.asks
        /\ \A j \in DOMAIN book_in.bids :
              LaterZero(book_in.bids, j) =>
                  deserialize_price(book_in.bids[j].price, overflow_checks).val
                      \notin DOMAIN book_out.val.bids

\* C23: for every Text payload a receive loop hands to strip_array_wrapper
\* (an empty one, one not starting with '[', one whose last ']' is its
\* first byte included) the slice bounds satisfy start <= end <= length,
\* and the unwrap never aborts the loop.
C23_UnwrapInBounds ==
    /\ loop # "panicked"
    /\ \A i \in DOMAIN wire :
          (wire[i].opcode = "Text" /\ kept(entry, wire[i].payload))
          => ( /\ strip_start <= strip_end(wire[i].payload)
               /\ strip_end(wire[i].payload) <= Len(wire[i].payload) )

\* C24: whatever the fields of a parsed Orderbook (an asset_id under 20
\* bytes, empty sides), the emit step completes and moves next_seq past
\* the entry; the reordering stage never aborts.
C24_EmitNeverAborts ==
    /\ reorder # "panicked"
    /\ \A i \in DOMAIN emitted : emitted[i].seq_no < next_seq

====
